---- MODULE Spec2Model ----
(***************************************************************************)
(* Model of the reminder / scheduled-action microservice.                  *)
(*                                                                         *)
(* Two programs of the repository are modelled, each over its own tables:  *)
(*   - the scheduler runner (src/services.py: main, process_schedule) over *)
(*     the scheduled_actions table, with the store gateway of              *)
(*     src/database_scheduler.py;                                          *)
(*   - the HTTP service (src/scheduler_service.py: run_all_due_jobs and    *)
(*     its four sweeps) over the tasks, ai_actions and silent-session      *)
(*     tables.                                                             *)
(* Time is counted in whole hours since 2024-01-01T00:00Z.  Every call of  *)
(* an external collaborator (store read, store write, log write, send)     *)
(* has a nondeterministic outcome.                                         *)
(***************************************************************************)
EXTENDS Integers, Sequences, FiniteSets, TLC

VARIABLES
    deployment,   \* which program is deployed: "runner" or "service"
    now,          \* wall clock, hours since 2024-01-01T00:00Z
    ticks,        \* number of invocations started so far
    sched,        \* table scheduled_actions: id -> row
    tasks,        \* table tasks, the reminder columns: id -> row
    ai,           \* table ai_actions: id -> row
    sessions,     \* table of silent sessions: list of rows, the id is the index
    prefs,        \* table user_whatsapp, the auto-silent columns: user -> row
    commands,     \* number of silent-mode commands the users will still send
    obs,          \* per reminder and job: what has been done for it so far
    sessSends,    \* per silent session: notices and summaries sent for it
    pc,           \* per invocation: position in the code
    due,          \* per invocation: the rest of the list the running sweep iterates
    last,         \* per invocation: what the item handled last did
    snap,         \* per invocation: the clock and the tables when it started
    resp,         \* per invocation: "none", "running", or how it ended
    cnt,          \* per invocation: the counts the sweeps return
    done          \* per invocation: the sweeps that have returned

envVars == <<deployment, now, ticks, prefs, commands>>
storeVars == <<sched, tasks, ai, sessions>>
obsVars == <<obs, sessSends>>
procVars == <<pc, due, last, snap, resp, cnt, done>>

vars == <<envVars, storeVars, obsVars, procVars>>

----------------------------------------------------------------------------
(* Bounds of the model *)

MaxAdvance == 1      \* the clock advances at most this many hours
MaxTicks == 2        \* at most this many invocations are started
MaxCommands == 2     \* the users send at most this many silent-mode commands

StartTimes == {23}   \* 2024-01-01T23:00Z

Procs == {1, 2}      \* invocations that may be in progress at once

----------------------------------------------------------------------------
(* Users and their contacts (table user_whatsapp) *)

Users == {"u1", "u2"}

\* u1 has a phone row, u2 has none
HasPhone(u) == u = "u1"

----------------------------------------------------------------------------
(* Recurrence: croniter and pytz, at hour granularity *)

HoursPerDay == 24

CronExprs == {"0 9 * * *", "0 * * * *"}
BadCron == "every day"

\* the hours of the day matched by the hour field of the expression
CronHours(expr) ==
    IF expr = "0 9 * * *" THEN {9} ELSE 0 .. (HoursPerDay - 1)

\* croniter(expr, start) raises on an expression it cannot parse
CronValid(expr) == expr \in CronExprs

\* croniter(expr, start).get_next(): the first match strictly after start,
\* start and result on the same wall clock
CronNext(expr, start) ==
    CHOOSE n \in (start + 1) .. (start + HoursPerDay) :
        /\ (n % HoursPerDay) \in CronHours(expr)
        /\ \A m \in (start + 1) .. (n - 1) : (m % HoursPerDay) \notin CronHours(expr)

Timezones == {"UTC", "Asia/Jakarta"}
BadTimezone == "Mars/Phobos"

\* pytz.timezone(name) raises UnknownTimeZoneError on an unknown name
TzValid(tz) == tz \in Timezones

\* UTC offset of a zone in hours
TzOffset(tz) == IF tz = "Asia/Jakarta" THEN 7 ELSE 0

----------------------------------------------------------------------------
(* Table scheduled_actions and its gateway (src/database_scheduler.py) *)

SchedIds == {"s1", "s2"}
ReminderIds == {"r1", "r2"}
AiIds == {"a1", "a2"}

Statuses == {"active", "completed", "failed"}

\* partial update of a row: the fields of the patch replace those of the row
ApplyPatch(row, patch) ==
    [f \in DOMAIN row |-> IF f \in DOMAIN patch THEN patch[f] ELSE row[f]]

\* get_due_schedules: next_run_at <= now and status = active; a store error
\* is caught and gives the empty list
IsDueSchedule_AnyStatus(row, t) == row.next_run_at <= t

IsDueSchedule(row, t) == row.next_run_at <= t /\ row.status = "active"

SchedOrder == <<"s1", "s2">>

GetDueSchedules(tbl, t, readOk) ==
    IF readOk
    THEN SelectSeq(SchedOrder, LAMBDA j : IsDueSchedule(tbl[j], t))
    ELSE <<>>

UpdateSchedule_ErrorSuspendsRow(tbl, id, patch, writeOk) ==
    IF writeOk THEN [tbl EXCEPT ![id] = ApplyPatch(@, patch)]
    ELSE [tbl EXCEPT ![id].status = "failed"]

\* update_schedule: the patch is applied to the row; a store error is caught
\* and logged, and the row is left as it was
UpdateSchedule(tbl, id, patch, writeOk) ==
    IF writeOk THEN [tbl EXCEPT ![id] = ApplyPatch(@, patch)] ELSE tbl

\* get_user_phone_by_id: the phone of the user's row, none when there is no
\* row or when the read fails
GetUserPhoneById(u, readOk) == readOk /\ HasPhone(u)

----------------------------------------------------------------------------
(* The scheduler runner (src/services.py) *)

RunnerActionTypes ==
    {"send_notification", "create_task", "daily_summary", "execute_prompt"}

PostExecutionPatch_OneTimeKeptActive(row, t) ==
    IF row.schedule_type = "cron" /\ CronValid(row.schedule_value)
    THEN <<[next_run_at |-> CronNext(row.schedule_value, t)]>>
    ELSE IF row.schedule_type = "cron"
    THEN <<[status |-> "failed", error_message |-> "Invalid CRON expression"]>>
    ELSE <<>>

\* the patch issued after the action has been executed
PostExecutionPatch(row, t) ==
    IF row.schedule_type = "one_time"
    THEN <<[status |-> "completed"]>>
    ELSE IF row.schedule_type = "cron"
    THEN IF CronValid(row.schedule_value)
         THEN <<[next_run_at |-> CronNext(row.schedule_value, t)]>>
         ELSE <<[status |-> "failed", error_message |-> "Invalid CRON expression"]>>
    ELSE <<>>

\* the events of executing the action of a row for a user that has a phone;
\* taskOk is the outcome of the insert of create_task_from_schedule
ActionEvents(row, taskOk) ==
    IF row.action_type = "send_notification" THEN <<"send">>
    ELSE IF row.action_type = "create_task"
    THEN IF taskOk /\ row.action_payload # "null" THEN <<"task", "send">> ELSE <<>>
    ELSE IF row.action_type = "daily_summary" THEN <<"send">>
    ELSE <<>>

ProcessSchedule_PhoneNotChecked(row, t, phone, taskOk) ==
    IF row.action_type \notin RunnerActionTypes
    THEN [events |-> <<>>, raised |-> FALSE,
          patches |-> <<[status |-> "failed", error_message |-> "Unknown action type"]>>]
    ELSE IF row.action_type = "send_notification" /\ row.action_payload = "null"
    THEN [events |-> <<>>, raised |-> TRUE, patches |-> <<>>]
    ELSE [events |-> ActionEvents(row, taskOk), raised |-> FALSE,
          patches |-> PostExecutionPatch(row, t)]

\* process_schedule: what one call does, as the events of the action, the
\* patches handed to update_schedule, and whether an exception left the call
ProcessSchedule(row, t, phone, taskOk) ==
    IF ~ phone
    THEN [events |-> <<>>, raised |-> FALSE,
          patches |-> <<[status |-> "failed", error_message |-> "User phone not found"]>>]
    ELSE IF row.action_type \notin RunnerActionTypes
    THEN [events |-> <<>>, raised |-> FALSE,
          patches |-> <<[status |-> "failed", error_message |-> "Unknown action type"]>>]
    ELSE IF row.action_type = "send_notification" /\ row.action_payload = "null"
    THEN \* payload.get on None raises AttributeError
         [events |-> <<>>, raised |-> TRUE, patches |-> <<>>]
    ELSE [events |-> ActionEvents(row, taskOk), raised |-> FALSE,
          patches |-> PostExecutionPatch(row, t)]

\* the number of occurrences of e in a list of events
Count(events, e) == Cardinality({i \in DOMAIN events : events[i] = e})

\* what is observed of one reminder or job: the sends attempted, the log
\* entries written, the tasks inserted, the times a sweep handled it, the
\* patches the store applied and the patches the store refused
NoObs == [sends |-> 0, logs |-> 0, tasks |-> 0, runs |-> 0, patches |-> 0, refused |-> 0]

Observe(o, events, issued, writeOk) ==
    [sends |-> o.sends + Count(events, "send"),
     logs |-> o.logs + Count(events, "log"),
     tasks |-> o.tasks + Count(events, "task"),
     runs |-> o.runs + 1,
     patches |-> o.patches + (IF issued # <<>> /\ writeOk THEN 1 ELSE 0),
     refused |-> o.refused + (IF issued # <<>> /\ ~ writeOk THEN 1 ELSE 0)]

\* the record of an invocation that has handled no item yet
NoItem == [id |-> "none", phone |-> FALSE, events |-> <<>>, issued |-> <<>>,
           applied |-> FALSE, raised |-> FALSE, counted |-> FALSE,
           before |-> <<>>, at |-> 0]

NoCounts == [reminders_sent |-> 0, ai_actions_executed |-> 0,
             silent_sessions_managed |-> 0, expired_sessions_ended |-> 0]

\* the tables as an invocation finds them when it starts
Snapshot == [at |-> now, sched |-> sched, tasks |-> tasks, ai |-> ai,
             sessions |-> sessions, obs |-> obs,
             exp |-> [sessions |-> sessions, sends |-> sessSends]]

\* an invocation starts
Begin(p, where, answer) ==
    /\ pc' = [pc EXCEPT ![p] = where]
    /\ resp' = [resp EXCEPT ![p] = answer]
    /\ ticks' = ticks + 1
    /\ last' = [last EXCEPT ![p] = NoItem]
    /\ snap' = [snap EXCEPT ![p] = Snapshot]
    /\ cnt' = [cnt EXCEPT ![p] = NoCounts]
    /\ done' = [done EXCEPT ![p] = {}]

\* main, first half: fetch the due schedules; return when there are none
MainStart(p) ==
    /\ deployment = "runner"
    /\ pc[p] = "idle"
    /\ ticks < MaxTicks
    /\ \E readOk \in BOOLEAN :
         LET found == GetDueSchedules(sched, now, readOk) IN
         /\ due' = [due EXCEPT ![p] = found]
         /\ IF found = <<>>
            THEN Begin(p, "idle", "returned")
            ELSE Begin(p, "main_loop", "running")
    /\ UNCHANGED <<deployment, now, prefs, commands, storeVars, obsVars>>

\* main, loop body: process_schedule on the next fetched schedule; an
\* exception is caught and the schedule is marked failed
MainItem(p) ==
    /\ pc[p] = "main_loop"
    /\ due[p] # <<>>
    /\ LET id == Head(due[p])
           row == sched[id]
       IN \E readOk \in BOOLEAN, taskOk \in BOOLEAN, writeOk \in BOOLEAN :
            LET phone == GetUserPhoneById(row.user_id, readOk)
                r == ProcessSchedule(row, now, phone, taskOk)
                issued == IF r.raised
                          THEN <<[status |-> "failed", error_message |-> "exception"]>>
                          ELSE r.patches
                applied == issued # <<>> /\ writeOk
            IN /\ sched' = IF issued = <<>> THEN sched
                           ELSE UpdateSchedule(sched, id, issued[1], writeOk)
               /\ obs' = [obs EXCEPT ![id] = Observe(@, r.events, issued, writeOk)]
               /\ last' = [last EXCEPT ![p] =
                             [id |-> id, events |-> r.events, issued |-> issued,
                              applied |-> applied, raised |-> r.raised,
                              phone |-> phone, counted |-> FALSE,
                              before |-> row, at |-> now]]
    /\ due' = [due EXCEPT ![p] = Tail(@)]
    /\ pc' = [pc EXCEPT ![p] = IF Len(due[p]) = 1 THEN "idle" ELSE "main_loop"]
    /\ resp' = [resp EXCEPT ![p] = IF Len(due[p]) = 1 THEN "returned" ELSE "running"]
    /\ UNCHANGED <<envVars, tasks, ai, sessions, sessSends, snap, cnt, done>>

----------------------------------------------------------------------------
(* The HTTP service (src/scheduler_service.py): the trigger endpoint *)

\* an invocation ends: the response is recorded and the worker is free again
Finish(p, answer) ==
    /\ pc' = [pc EXCEPT ![p] = "idle"]
    /\ resp' = [resp EXCEPT ![p] = answer]
    /\ due' = [due EXCEPT ![p] = <<>>]
    /\ done' = [done EXCEPT ![p] = IF answer = "200" THEN @ \cup {pc[p]} ELSE @]

\* the invocation moves on with the list of the sweep it is in, or to the
\* query of the next sweep when the list is exhausted
Continue(p, rest, loop, after) ==
    /\ pc' = [pc EXCEPT ![p] = IF rest = <<>> THEN after ELSE loop]
    /\ due' = [due EXCEPT ![p] = rest]
    /\ resp' = resp
    /\ done' = [done EXCEPT ![p] = IF rest = <<>> THEN @ \cup {loop} ELSE @]

Unauthorized_SweepsStart(p) ==
    /\ deployment = "service"
    /\ pc[p] = "idle"
    /\ ticks < MaxTicks
    /\ ticks' = ticks + 1
    /\ resp' = [resp EXCEPT ![p] = "401"]
    /\ pc' = [pc EXCEPT ![p] = "rem_query"]
    /\ UNCHANGED <<deployment, now, prefs, commands, storeVars, obsVars,
                   due, last, snap, cnt, done>>

\* run_all_due_jobs, the bearer check: a request with another header is
\* answered 401 and nothing else happens
Unauthorized(p) ==
    /\ deployment = "service"
    /\ pc[p] = "idle"
    /\ ticks < MaxTicks
    /\ ticks' = ticks + 1
    /\ resp' = [resp EXCEPT ![p] = "401"]
    /\ UNCHANGED <<deployment, now, prefs, commands, storeVars, obsVars,
                   pc, due, last, snap, cnt, done>>

\* run_all_due_jobs with the right header: the sweeps start
RunAllDueJobs(p) ==
    /\ deployment = "service"
    /\ pc[p] = "idle"
    /\ ticks < MaxTicks
    /\ Begin(p, "rem_query", "running")
    /\ UNCHANGED <<deployment, now, prefs, commands, storeVars, obsVars, due>>

----------------------------------------------------------------------------
(* handle_due_reminders *)

ReminderOrder == <<"r1", "r2">>

IsDueReminder_AnyTime(row, t) == ~ row.reminder_sent

\* the filter of the query: reminder_at <= now and reminder_sent = false
IsDueReminder(row, t) == row.reminder_at <= t /\ ~ row.reminder_sent

\* the query is not guarded: a store error leaves handle_due_reminders as an
\* exception, which run_all_due_jobs answers with 500
RemQuery(p) ==
    /\ pc[p] = "rem_query"
    /\ \E readOk \in BOOLEAN :
         IF readOk
         THEN Continue(p, SelectSeq(ReminderOrder, LAMBDA r : IsDueReminder(tasks[r], now)),
                       "rem_loop", "ai_query")
         ELSE Finish(p, "500")
    /\ UNCHANGED <<envVars, storeVars, obsVars, last, snap, cnt>>

\* the loop body for one due reminder: with a phone, the log entry is
\* written (best effort), the message is sent and the flag is set; a store
\* error on the flag update is not caught
ReminderItem_FlagOnDelivery(phone, logOk, sendOk, writeOk) ==
    IF ~ phone
    THEN [events |-> <<>>, issued |-> <<>>, flagged |-> FALSE, raised |-> FALSE]
    ELSE IF ~ sendOk
    THEN [events |-> <<IF logOk THEN "log" ELSE "logfail", "send">>,
          issued |-> <<>>, flagged |-> FALSE, raised |-> FALSE]
    ELSE [events |-> <<IF logOk THEN "log" ELSE "logfail", "send">>,
          issued |-> <<[reminder_sent |-> TRUE]>>,
          flagged |-> writeOk, raised |-> ~ writeOk]

ReminderItem_SkipIsLogged(phone, logOk, sendOk, writeOk) ==
    IF ~ phone
    THEN [events |-> <<IF logOk THEN "log" ELSE "logfail">>, issued |-> <<>>,
          flagged |-> FALSE, raised |-> FALSE]
    ELSE [events |-> <<IF logOk THEN "log" ELSE "logfail", "send">>,
          issued |-> <<[reminder_sent |-> TRUE]>>,
          flagged |-> writeOk, raised |-> ~ writeOk]

ReminderItem(phone, logOk, sendOk, writeOk) ==
    IF ~ phone
    THEN [events |-> <<>>, issued |-> <<>>, flagged |-> FALSE, raised |-> FALSE]
    ELSE [events |-> <<IF logOk THEN "log" ELSE "logfail", "send">>,
          issued |-> <<[reminder_sent |-> TRUE]>>,
          flagged |-> writeOk, raised |-> ~ writeOk]

RemStep_ClaimsRow(p) ==
    /\ pc[p] = "rem_loop"
    /\ due[p] # <<>>
    /\ LET id == Head(due[p])
           row == tasks[id]
       IN \E readOk \in BOOLEAN, logOk \in BOOLEAN, sendOk \in BOOLEAN,
             writeOk \in BOOLEAN :
            LET phone == GetUserPhoneById(row.user_id, readOk)
                r == ReminderItem(phone /\ ~ row.reminder_sent, logOk, sendOk, writeOk)
            IN /\ tasks' = IF r.flagged THEN [tasks EXCEPT ![id].reminder_sent = TRUE]
                           ELSE tasks
               /\ obs' = [obs EXCEPT ![id] = Observe(@, r.events, r.issued, writeOk)]
               /\ last' = [last EXCEPT ![p] =
                             [id |-> id, events |-> r.events, issued |-> r.issued,
                              applied |-> r.flagged, raised |-> r.raised,
                              phone |-> phone, counted |-> r.flagged,
                              before |-> row, at |-> now]]
               /\ cnt' = [cnt EXCEPT ![p].reminders_sent = @ + (IF r.flagged THEN 1 ELSE 0)]
               /\ IF r.raised
                  THEN Finish(p, "500")
                  ELSE Continue(p, Tail(due[p]), "rem_loop", "ai_query")
    /\ UNCHANGED <<envVars, sched, ai, sessions, sessSends, snap>>

RemStep(p) ==
    /\ pc[p] = "rem_loop"
    /\ due[p] # <<>>
    /\ LET id == Head(due[p])
           row == tasks[id]
       IN \E readOk \in BOOLEAN, logOk \in BOOLEAN, sendOk \in BOOLEAN,
             writeOk \in BOOLEAN :
            LET phone == GetUserPhoneById(row.user_id, readOk)
                r == ReminderItem(phone, logOk, sendOk, writeOk)
            IN /\ tasks' = IF r.flagged THEN [tasks EXCEPT ![id].reminder_sent = TRUE]
                           ELSE tasks
               /\ obs' = [obs EXCEPT ![id] = Observe(@, r.events, r.issued, writeOk)]
               /\ last' = [last EXCEPT ![p] =
                             [id |-> id, events |-> r.events, issued |-> r.issued,
                              applied |-> r.flagged, raised |-> r.raised,
                              phone |-> phone, counted |-> r.flagged,
                              before |-> row, at |-> now]]
               /\ cnt' = [cnt EXCEPT ![p].reminders_sent = @ + (IF r.flagged THEN 1 ELSE 0)]
               /\ IF r.raised
                  THEN Finish(p, "500")
                  ELSE Continue(p, Tail(due[p]), "rem_loop", "ai_query")
    /\ UNCHANGED <<envVars, sched, ai, sessions, sessSends, snap>>

----------------------------------------------------------------------------
(* handle_due_ai_actions and update_job_after_run *)

AiOrder == <<"a1", "a2">>

ServiceActionTypes ==
    {"summarize_tasks", "create_recurring_task", "task_for_day", "summary_of_day"}

\* the filter of the query: next_run_at <= now and status = active
IsDueAiAction(row, t) == row.next_run_at <= t /\ row.status = "active"

\* the query is not guarded: a store error is answered with 500
AiQuery(p) ==
    /\ pc[p] = "ai_query"
    /\ \E readOk \in BOOLEAN :
         IF readOk
         THEN Continue(p, SelectSeq(AiOrder, LAMBDA j : IsDueAiAction(ai[j], now)),
                       "ai_loop", "silent_query")
         ELSE Finish(p, "500")
    /\ UNCHANGED <<envVars, storeVars, obsVars, last, snap, cnt>>

\* the next run of a recurring job: the cron expression is matched against
\* the wall clock of the job's zone and the match is converted back to UTC
NextRunInZone(expr, tz, t) == CronNext(expr, t + TzOffset(tz)) - TzOffset(tz)

\* update_job_after_run: the patch it sends to the store, or the exception
\* that pytz or croniter raises; nothing in it is guarded
UpdateJobAfterRun(row, status, t) ==
    IF status = "success" /\ row.schedule_spec # "none"
    THEN IF TzValid(row.timezone) /\ CronValid(row.schedule_spec)
         THEN [raised |-> FALSE,
               patches |-> <<[next_run_at |-> NextRunInZone(row.schedule_spec, row.timezone, t),
                              last_run_at |-> t]>>]
         ELSE [raised |-> TRUE, patches |-> <<>>]
    ELSE [raised |-> FALSE,
          patches |-> <<[status |-> IF status = "success" THEN "completed" ELSE "error"]>>]

AiActionEvents_LogFailureAborts(row, taskOk, logOk) ==
    IF row.action_type \in {"summarize_tasks", "task_for_day", "summary_of_day"}
    THEN IF logOk THEN <<"log", "send">> ELSE <<"logfail">>
    ELSE IF row.action_type = "create_recurring_task" /\ row.action_payload = "title"
    THEN <<IF taskOk THEN "task" ELSE "taskfail">>
           \o (IF logOk THEN <<"log", "send">> ELSE <<"logfail">>)
    ELSE <<>>

\* the events of the branch of the dispatch that the action type selects
AiActionEvents(row, taskOk, logOk) ==
    LET logged == IF logOk THEN "log" ELSE "logfail" IN
    IF row.action_type \in {"summarize_tasks", "task_for_day", "summary_of_day"}
    THEN <<logged, "send">>
    ELSE IF row.action_type = "create_recurring_task" /\ row.action_payload = "title"
    THEN <<IF taskOk THEN "task" ELSE "taskfail", logged, "send">>
    ELSE <<>>

\* the loop body for one due job
AiItem(row, t, phone, taskOk, logOk) ==
    IF ~ phone
    THEN [events |-> <<>>, counted |-> FALSE, update |-> UpdateJobAfterRun(row, "error", t)]
    ELSE IF row.action_type = "create_recurring_task" /\ row.action_payload = "null"
    THEN \* payload.get on None raises AttributeError
         [events |-> <<>>, counted |-> FALSE, update |-> [raised |-> TRUE, patches |-> <<>>]]
    ELSE [events |-> AiActionEvents(row, taskOk, logOk), counted |-> TRUE,
          update |-> UpdateJobAfterRun(row, "success", t)]

AiStep(p) ==
    /\ pc[p] = "ai_loop"
    /\ due[p] # <<>>
    /\ LET id == Head(due[p])
           row == ai[id]
       IN \E readOk \in BOOLEAN, taskOk \in BOOLEAN, logOk \in BOOLEAN,
             writeOk \in BOOLEAN :
            LET phone == GetUserPhoneById(row.user_id, readOk)
                r == AiItem(row, now, phone, taskOk, logOk)
                issued == r.update.patches
                applied == issued # <<>> /\ writeOk
                raised == r.update.raised \/ (issued # <<>> /\ ~ writeOk)
            IN /\ ai' = IF applied THEN [ai EXCEPT ![id] = ApplyPatch(@, issued[1])] ELSE ai
               /\ obs' = [obs EXCEPT ![id] = Observe(@, r.events, issued, writeOk)]
               /\ last' = [last EXCEPT ![p] =
                             [id |-> id, events |-> r.events, issued |-> issued,
                              applied |-> applied, raised |-> raised,
                              phone |-> phone, counted |-> r.counted /\ ~ raised,
                              before |-> row, at |-> now]]
               /\ cnt' = [cnt EXCEPT ![p].ai_actions_executed =
                            @ + (IF r.counted /\ ~ raised THEN 1 ELSE 0)]
               /\ IF raised
                  THEN Finish(p, "500")
                  ELSE Continue(p, Tail(due[p]), "ai_loop", "silent_query")
    /\ UNCHANGED <<envVars, sched, tasks, sessions, sessSends, snap>>

----------------------------------------------------------------------------
(* The silent-session gateway (module database_silent) *)

MinutesPerHour == 60

\* get_active_silent_session: the id of an active session of the user, 0
\* when there is none
GetActiveSilentSession(ss, u) ==
    IF \E i \in DOMAIN ss : ss[i].user_id = u /\ ss[i].status = "active"
    THEN CHOOSE i \in DOMAIN ss : ss[i].user_id = u /\ ss[i].status = "active"
    ELSE 0

\* create_silent_session: a new active session that starts now
CreateSilentSession(ss, u, minutes, trigger, t) ==
    Append(ss, [user_id |-> u, start |-> t, duration_minutes |-> minutes,
                trigger_type |-> trigger, status |-> "active", end_reason |-> "none"])

\* get_expired_silent_sessions: the active sessions whose window has elapsed
IsExpired(row, t) ==
    /\ row.status = "active"
    /\ row.start * MinutesPerHour + row.duration_minutes <= t * MinutesPerHour

RECURSIVE IdsFrom(_, _, _)
IdsFrom(ss, t, i) ==
    IF i > Len(ss) THEN <<>>
    ELSE (IF IsExpired(ss[i], t) THEN <<i>> ELSE <<>>) \o IdsFrom(ss, t, i + 1)

GetExpiredSilentSessions(ss, t) == IdsFrom(ss, t, 1)

\* end_silent_session: the session is ended with the reason given
EndSilentSession(ss, id, reason) ==
    [ss EXCEPT ![id].status = "ended", ![id].end_reason = reason]

\* what is observed of one session: the activation notices and the summaries
\* sent for it, the log entries written, the times the expiry sweep ended it
\* and the times the sweep found the phone of its user
NoSends == [notices |-> 0, summaries |-> 0, logs |-> 0, ends |-> 0, found |-> 0]

----------------------------------------------------------------------------
(* handle_daily_silent_mode *)

UserOrder == <<"u1", "u2">>

WindowDurationHours_NoWrap(start_hour, end_hour) == end_hour - start_hour

\* the window in hours, wrapping past midnight
WindowDurationHours(start_hour, end_hour) ==
    IF end_hour > start_hour
    THEN end_hour - start_hour
    ELSE (HoursPerDay - start_hour) + end_hour

\* the hour on the wall clock of a zone
LocalHour(t, tz) == (t + TzOffset(tz)) % HoursPerDay

\* the users with auto_silent_enabled; any error is caught and the sweep
\* returns 0
SilentQuery(p) ==
    /\ pc[p] = "silent_query"
    /\ \E readOk \in BOOLEAN :
         Continue(p, IF readOk
                     THEN SelectSeq(UserOrder, LAMBDA u : u \in DOMAIN prefs
                                                   /\ prefs[u].auto_silent_enabled)
                     ELSE <<>>,
                  "silent_check", "exp_query")
    /\ UNCHANGED <<envVars, storeVars, obsVars, last, snap, cnt>>

\* first half of the loop body: the local hour is compared with the start
\* hour and the active session of the user is read
SilentCheck(p) ==
    /\ pc[p] = "silent_check"
    /\ due[p] # <<>>
    /\ LET u == Head(due[p])
           active == GetActiveSilentSession(sessions, u)
       IN IF /\ TzValid(prefs[u].timezone)
             /\ LocalHour(now, prefs[u].timezone) = prefs[u].auto_silent_start_hour
             /\ active = 0
          THEN /\ pc' = [pc EXCEPT ![p] = "silent_create"]
               /\ UNCHANGED <<due, resp, done>>
          ELSE Continue(p, Tail(due[p]), "silent_check", "exp_query")
    /\ UNCHANGED <<envVars, storeVars, obsVars, last, snap, cnt>>

\* second half: no active session was found, so a session for the window is
\* created, the notice is sent and the activation is logged
SilentCreate(p) ==
    /\ pc[p] = "silent_create"
    /\ LET u == Head(due[p])
           minutes == WindowDurationHours(prefs[u].auto_silent_start_hour,
                                          prefs[u].auto_silent_end_hour) * MinutesPerHour
       IN \E createOk \in BOOLEAN, readOk \in BOOLEAN, logOk \in BOOLEAN :
            LET phone == createOk /\ GetUserPhoneById(u, readOk) IN
            /\ sessions' = IF createOk
                           THEN CreateSilentSession(sessions, u, minutes, "auto", now)
                           ELSE sessions
            /\ sessSends' = IF createOk
                            THEN Append(sessSends,
                                        [NoSends EXCEPT
                                           !.notices = IF phone THEN 1 ELSE 0,
                                           !.logs = IF phone /\ logOk THEN 1 ELSE 0])
                            ELSE sessSends
            /\ cnt' = [cnt EXCEPT ![p].silent_sessions_managed =
                         @ + (IF createOk THEN 1 ELSE 0)]
    /\ Continue(p, Tail(due[p]), "silent_check", "exp_query")
    /\ UNCHANGED <<envVars, sched, tasks, ai, obs, last, snap>>

----------------------------------------------------------------------------
(* handle_expired_silent_sessions *)

\* the expired sessions; any error is caught and the sweep returns 0, after
\* which run_all_due_jobs answers 200; the sessions as the sweep finds them
\* are remembered
ExpQuery(p) ==
    /\ pc[p] = "exp_query"
    /\ \E readOk \in BOOLEAN :
         LET found == IF readOk THEN GetExpiredSilentSessions(sessions, now) ELSE <<>> IN
         /\ snap' = [snap EXCEPT ![p].exp =
                       [sessions |-> sessions, sends |-> sessSends]]
         /\ IF found = <<>> THEN Finish(p, "200")
            ELSE Continue(p, found, "exp_loop", "idle")
    /\ UNCHANGED <<envVars, storeVars, obsVars, last, cnt>>

ExpiredItem_SummaryWithoutEnd(endOk, phone, logOk) ==
    [ended |-> endOk,
     summaries |-> IF phone THEN 1 ELSE 0,
     logs |-> IF phone /\ logOk THEN 1 ELSE 0,
     found |-> IF phone THEN 1 ELSE 0]

\* the loop body for one expired session: when end_silent_session gave the
\* ended session it is counted, and when the phone of its user is found the
\* summary is sent and logged; endOk is the outcome of the end call, phone
\* that of the lookup
ExpiredItem(endOk, phone, logOk) ==
    [ended |-> endOk,
     summaries |-> IF endOk /\ phone THEN 1 ELSE 0,
     logs |-> IF endOk /\ phone /\ logOk THEN 1 ELSE 0,
     found |-> IF endOk /\ phone THEN 1 ELSE 0]

ExpStep(p) ==
    /\ pc[p] = "exp_loop"
    /\ due[p] # <<>>
    /\ LET id == Head(due[p]) IN
       \E endOk \in BOOLEAN, readOk \in BOOLEAN, logOk \in BOOLEAN :
         LET r == ExpiredItem(endOk, GetUserPhoneById(sessions[id].user_id, readOk), logOk) IN
         /\ sessions' = IF r.ended THEN EndSilentSession(sessions, id, "expired") ELSE sessions
         /\ sessSends' = [sessSends EXCEPT ![id].summaries = @ + r.summaries,
                                           ![id].logs = @ + r.logs,
                                           ![id].found = @ + r.found,
                                           ![id].ends = @ + (IF r.ended THEN 1 ELSE 0)]
         /\ cnt' = [cnt EXCEPT ![p].expired_sessions_ended = @ + (IF r.ended THEN 1 ELSE 0)]
    /\ IF Len(due[p]) = 1 THEN Finish(p, "200")
       ELSE Continue(p, Tail(due[p]), "exp_loop", "idle")
    /\ UNCHANGED <<envVars, sched, tasks, ai, obs, last, snap>>

----------------------------------------------------------------------------
(* The manual trigger: the user enters or leaves silent mode by a message *)

ManualEnter(u) ==
    /\ commands > 0
    /\ HasPhone(u)
    /\ GetActiveSilentSession(sessions, u) = 0
    /\ commands' = commands - 1
    /\ sessions' = CreateSilentSession(sessions, u, MinutesPerHour, "manual", now)
    /\ sessSends' = Append(sessSends, NoSends)
    /\ UNCHANGED <<deployment, now, ticks, prefs, sched, tasks, ai, obs, procVars>>

ManualExit(u) ==
    /\ commands > 0
    /\ GetActiveSilentSession(sessions, u) # 0
    /\ commands' = commands - 1
    /\ sessions' = EndSilentSession(sessions, GetActiveSilentSession(sessions, u), "manual")
    /\ UNCHANGED <<deployment, now, ticks, prefs, sched, tasks, ai, obsVars, procVars>>

----------------------------------------------------------------------------
(* The clock *)

\* the unit of the clock is an hour and an invocation takes seconds: the
\* hour changes between invocations
Advance ==
    /\ \A p \in Procs : pc[p] = "idle"
    /\ \E t0 \in StartTimes : now < t0 + MaxAdvance
    /\ now' = now + 1
    /\ UNCHANGED <<deployment, ticks, prefs, commands, storeVars, obsVars, procVars>>

----------------------------------------------------------------------------
(* Initial states *)

\* the schedules a row may have: one-off, of an unknown kind, or recurring
\* with a cron expression and a zone
Schedules ==
    ({"one_time", "weekly"} \X {"none"} \X {"UTC"})
      \cup ({"cron"} \X {"0 9 * * *"} \X (Timezones \cup {BadTimezone}))
      \cup ({"cron"} \X {"0 * * * *", BadCron} \X {"UTC"})

\* one row of scheduled_actions, due an hour ago
SchedRow(u, action, payload, sv, t0) ==
    [user_id |-> u, action_type |-> action, action_payload |-> payload,
     schedule_type |-> sv[1], schedule_value |-> sv[2], timezone |-> sv[3],
     next_run_at |-> t0 - 1, status |-> "active", error_message |-> "none"]

\* the rows a scheduled_actions table may start with: for the user with a
\* phone every action type (and one that does not exist) on every schedule;
\* the actions that read the payload also without one, and for the user
\* without a phone, one-off and hourly; a prompt job without a payload
SchedRows(t0) ==
    { SchedRow("u1", a, "object", sv, t0) :
        a \in RunnerActionTypes \cup {"launch_rocket"}, sv \in Schedules }
    \cup
    { SchedRow(up[1], a, up[2], sv, t0) :
        up \in {<<"u1", "null">>, <<"u2", "object">>},
        a \in {"send_notification", "create_task"},
        sv \in {<<"one_time", "none", "UTC">>, <<"cron", "0 * * * *", "UTC">>} }
    \cup
    { SchedRow("u1", "execute_prompt", "null", sv, t0) :
        sv \in {<<"one_time", "none", "UTC">>, <<"cron", "0 * * * *", "UTC">>} }

\* the second row: an hourly notification for u1, due now
SecondSchedRow(t0) ==
    [user_id |-> "u1", action_type |-> "send_notification", action_payload |-> "object",
     schedule_type |-> "cron", schedule_value |-> "0 * * * *", timezone |-> "UTC",
     next_run_at |-> t0, status |-> "active", error_message |-> "none"]

Ids == SchedIds \cup ReminderIds \cup AiIds

NoTasks == [r \in ReminderIds |-> [user_id |-> "u1", reminder_at |-> 0, reminder_sent |-> TRUE]]
NoAi == [j \in AiIds |->
           [user_id |-> "u1", action_type |-> "summarize_tasks", action_payload |-> "title",
            schedule_spec |-> "none", timezone |-> "UTC", next_run_at |-> 0,
            last_run_at |-> 0, status |-> "completed"]]

NoPrefs == [u \in {} |-> 0]

InitRunner ==
    /\ deployment = "runner"
    /\ now \in StartTimes
    /\ \E r1 \in SchedRows(now) :
         sched = [j \in SchedIds |-> IF j = "s1" THEN r1 ELSE SecondSchedRow(now)]
    /\ tasks = NoTasks
    /\ ai = NoAi
    /\ prefs = NoPrefs
    /\ commands = 0

NoSched == [j \in SchedIds |->
              [user_id |-> "u1", action_type |-> "send_notification",
               action_payload |-> "object", schedule_type |-> "one_time",
               schedule_value |-> "none", timezone |-> "UTC", next_run_at |-> 0,
               status |-> "completed", error_message |-> "none"]]

\* one row of ai_actions, due an hour ago
AiRow(u, action, payload, sv, t0) ==
    [user_id |-> u, action_type |-> action, action_payload |-> payload,
     schedule_spec |-> sv[2], timezone |-> sv[3], next_run_at |-> t0 - 1,
     last_run_at |-> 0, status |-> "active"]

\* the rows an ai_actions table may start with: for the user with a phone
\* the action types (and one that does not exist), one-off and recurring;
\* create_recurring_task also without a payload, and two actions for the
\* user without a phone
AiRows(t0) ==
    { AiRow("u1", ap[1], ap[2], sv, t0) :
        ap \in ({"summarize_tasks", "task_for_day", "launch_rocket"} \X {"title"})
                 \cup ({"create_recurring_task"} \X {"title", "notitle"}),
        sv \in Schedules \ ({"weekly"} \X {"none"} \X {"UTC"}) }
    \cup
    { AiRow(up[1], up[2], up[3], sv, t0) :
        up \in {<<"u1", "create_recurring_task", "null">>,
                <<"u2", "create_recurring_task", "title">>,
                <<"u2", "summarize_tasks", "title">>},
        sv \in {<<"one_time", "none", "UTC">>, <<"cron", "0 * * * *", "UTC">>} }

\* the second job: an hourly summary for u1, due now
SecondAiRow(t0) ==
    [user_id |-> "u1", action_type |-> "summary_of_day", action_payload |-> "title",
     schedule_spec |-> "0 * * * *", timezone |-> "UTC", next_run_at |-> t0,
     last_run_at |-> 0, status |-> "active"]

\* u1 has auto-silent enabled for the hour that starts at the start time
ServicePrefs(t0) ==
    [u \in {"u1"} |->
       [auto_silent_enabled |-> TRUE, timezone |-> "Asia/Jakarta",
        auto_silent_start_hour |-> LocalHour(t0, "Asia/Jakarta"),
        auto_silent_end_hour |-> LocalHour(t0 + 1, "Asia/Jakarta")]]

\* a service whose jobs vary
InitServiceJobs ==
    /\ deployment = "service"
    /\ now \in StartTimes
    /\ sched = NoSched
    /\ tasks = NoTasks
    /\ \E a1 \in AiRows(now) :
         ai = [j \in AiIds |-> IF j = "a1" THEN a1 ELSE SecondAiRow(now)]
    /\ prefs = NoPrefs
    /\ commands = 0

\* a service whose reminders vary, with one job
InitServiceReminders ==
    /\ deployment = "service"
    /\ now \in StartTimes
    /\ sched = NoSched
    /\ \E u1 \in Users, tb \in {<<now, FALSE>>, <<now + 1, FALSE>>, <<now, TRUE>>} :
         tasks = [r \in ReminderIds |->
                    IF r = "r1"
                    THEN [user_id |-> u1, reminder_at |-> now, reminder_sent |-> FALSE]
                    ELSE [user_id |-> "u1", reminder_at |-> tb[1], reminder_sent |-> tb[2]]]
    /\ ai = [j \in AiIds |-> IF j = "a1" THEN SecondAiRow(now) ELSE NoAi[j]]
    /\ prefs = NoPrefs
    /\ commands = 0

\* a service whose users use silent mode: nothing else is due
InitServiceSessions ==
    /\ deployment = "service"
    /\ now \in StartTimes
    /\ sched = NoSched
    /\ tasks = NoTasks
    /\ ai = NoAi
    /\ prefs = ServicePrefs(now)
    /\ commands = MaxCommands

InitRest ==
    /\ ticks = 0
    /\ sessions = <<>>
    /\ sessSends = <<>>
    /\ obs = [j \in Ids |-> NoObs]
    /\ pc = [p \in Procs |-> "idle"]
    /\ due = [p \in Procs |-> <<>>]
    /\ last = [p \in Procs |-> NoItem]
    /\ snap = [p \in Procs |-> Snapshot]
    /\ resp = [p \in Procs |-> "none"]
    /\ cnt = [p \in Procs |-> NoCounts]
    /\ done = [p \in Procs |-> {}]

Init ==
    /\ InitRunner \/ InitServiceJobs \/ InitServiceReminders \/ InitServiceSessions
    /\ InitRest

\* the steps of invocation p
Step(p) ==
    \/ MainStart(p)
    \/ MainItem(p)
    \/ Unauthorized(p)
    \/ RunAllDueJobs(p)
    \/ RemQuery(p)
    \/ RemStep(p)
    \/ AiQuery(p)
    \/ AiStep(p)
    \/ SilentQuery(p)
    \/ SilentCheck(p)
    \/ SilentCreate(p)
    \/ ExpQuery(p)
    \/ ExpStep(p)

\* the steps of the environment
Environment ==
    \/ Advance
    \/ \E u \in Users : ManualEnter(u)
    \/ \E u \in Users : ManualExit(u)

\* invocations never overlap: a single invocation runs at a time
Next == Step(1) \/ Environment

Spec == Init /\ [][Next]_vars

\* invocations may overlap: the trigger fires again while an invocation is
\* still running
NextOverlap == (\E p \in Procs : Step(p)) \/ Environment

\* a runner with a one-off and an hourly notification for u1
InitRunnerOverlap ==
    /\ deployment = "runner"
    /\ now \in StartTimes
    /\ sched = [j \in SchedIds |->
                 IF j = "s1"
                 THEN SchedRow("u1", "send_notification", "object",
                               <<"one_time", "none", "UTC">>, now)
                 ELSE SecondSchedRow(now)]
    /\ tasks = NoTasks
    /\ ai = NoAi
    /\ prefs = NoPrefs
    /\ commands = 0

\* a service with a due reminder of u1, or with a due one-off job of u1
InitServiceOverlap ==
    /\ deployment = "service"
    /\ now \in StartTimes
    /\ sched = NoSched
    /\ \/ /\ tasks = [r \in ReminderIds |->
                       IF r = "r1"
                       THEN [user_id |-> "u1", reminder_at |-> now, reminder_sent |-> FALSE]
                       ELSE NoTasks[r]]
          /\ ai = NoAi
       \/ /\ tasks = NoTasks
          /\ ai = [j \in AiIds |->
                     IF j = "a1"
                     THEN AiRow("u1", "summarize_tasks", "title",
                                <<"one_time", "none", "UTC">>, now)
                     ELSE NoAi[j]]
    /\ prefs = NoPrefs
    /\ commands = 0

InitOverlap ==
    /\ InitRunnerOverlap \/ InitServiceOverlap \/ InitServiceSessions
    /\ InitRest

SpecOverlap == InitOverlap /\ [][NextOverlap]_vars

\* the hours of the day
DayHours == 0 .. (HoursPerDay - 1)

\* a service at any hour of the first day whose user u1 has auto-silent
\* enabled with a window that starts at the current hour of the user's zone
\* and ends at any hour of the day
InitWindow ==
    /\ deployment = "service"
    /\ now \in DayHours
    /\ sched = NoSched
    /\ tasks = NoTasks
    /\ ai = NoAi
    /\ \E tz \in Timezones, end_hour \in DayHours :
         prefs = [u \in {"u1"} |->
                    [auto_silent_enabled |-> TRUE, timezone |-> tz,
                     auto_silent_start_hour |-> LocalHour(now, tz),
                     auto_silent_end_hour |-> end_hour]]
    /\ commands = 0
    /\ InitRest

\* the trigger endpoint within one hour: the clock stands still, so that no
\* session expires and the loop of the expiry sweep has nothing to do
NextWindow ==
    \/ Unauthorized(1)
    \/ RunAllDueJobs(1)
    \/ RemQuery(1)
    \/ AiQuery(1)
    \/ SilentQuery(1)
    \/ SilentCheck(1)
    \/ SilentCreate(1)
    \/ ExpQuery(1)

SpecWindow == InitWindow /\ [][NextWindow]_vars

----------------------------------------------------------------------------
(* Properties.  Invocations never overlap in Spec, so they speak of         *)
(* invocation 1.                                                           *)

\* handle_due_reminders has returned in the invocation in progress or ended
RemindersReturned == "rem_loop" \in done[1]

\* the reminders that were due and unsent when the invocation started
DueRemindersAtStart ==
    {r \in ReminderIds : IsDueReminder(snap[1].tasks[r], snap[1].at)}

\* a send was attempted for the reminder or job in this invocation
SentInTick(id) == obs[id].sends > snap[1].obs[id].sends

\* C1 as stated: every reminder that was due and unsent when the tick
\* started is flagged reminder_sent once handle_due_reminders has returned in
\* the tick, whether or not its user has a contact.
C1_AllDueFlagged ==
    RemindersReturned => \A r \in DueRemindersAtStart : tasks[r].reminder_sent

\* C1 as amended: once handle_due_reminders has returned, a reminder that was
\* due and unsent when the tick started is flagged exactly when a send was
\* attempted for it, whatever the send returned; a reminder whose user has
\* no contact is skipped without a send and stays unsent.
C1_FlaggedIffSendAttempted ==
    RemindersReturned =>
        \A r \in DueRemindersAtStart :
            /\ tasks[r].reminder_sent <=> SentInTick(r)
            /\ ~ HasPhone(tasks[r].user_id) => ~ SentInTick(r)

\* a sweep has returned in which one due reminder was sent and flagged and
\* another, whose user has no contact, was skipped
C1_Witness ==
    /\ RemindersReturned
    /\ \E r \in DueRemindersAtStart : SentInTick(r) /\ tasks[r].reminder_sent
    /\ \E r \in DueRemindersAtStart : ~ HasPhone(tasks[r].user_id)

\* C5: a send is attempted at most once for each reminder, over all ticks
C5_AtMostOneSendPerReminder ==
    \A r \in ReminderIds : obs[r].sends <= 1

----------------------------------------------------------------------------
(* Jobs of either table *)

Jobs == SchedIds \cup AiIds

JobRow(j) == IF j \in SchedIds THEN sched[j] ELSE ai[j]

\* the row of a job when the invocation started
StartRow(j) == IF j \in SchedIds THEN snap[1].sched[j] ELSE snap[1].ai[j]

\* the job was due and active when the invocation started
DueAtStart(j) == IsDueSchedule(StartRow(j), snap[1].at)

\* the job recurs: schedule_type cron in scheduled_actions, a schedule_spec
\* in ai_actions
IsCron(j) ==
    IF j \in SchedIds THEN StartRow(j).schedule_type = "cron"
    ELSE StartRow(j).schedule_spec # "none"

CronExprOf(j) ==
    IF j \in SchedIds THEN StartRow(j).schedule_value ELSE StartRow(j).schedule_spec

\* a sweep handled the job in this invocation
HandledInTick(j) == obs[j].runs > snap[1].obs[j].runs

\* the store refused a patch of the job in this invocation
RefusedInTick(j) == obs[j].refused > snap[1].obs[j].refused

\* the invocation has ended: main has returned, or run_all_due_jobs has
\* answered 200 or 500
TickOver == pc[1] = "idle" /\ resp[1] \in {"returned", "200", "500"}

\* the tick ran the job and the store refused none of the job's patches
RanInTick(j) == DueAtStart(j) /\ HandledInTick(j) /\ ~ RefusedInTick(j)

\* C2: a cron job that was due and active when the tick started is, after
\* the tick, active with a strictly greater next_run_at, or failed; stated
\* here for the jobs the tick ran, already without a refused patch
C2_CronAdvancedOrFailed ==
    TickOver =>
        \A j \in Jobs :
            (RanInTick(j) /\ IsCron(j)) =>
                \/ JobRow(j).status = "active"
                   /\ JobRow(j).next_run_at > StartRow(j).next_run_at
                \/ JobRow(j).status = "failed"

\* C3 as stated: a one_time job that was due and active when the tick
\* started is completed or failed after the tick
C3_OneTimeEndsTerminal ==
    TickOver =>
        \A j \in SchedIds :
            (DueAtStart(j) /\ StartRow(j).schedule_type = "one_time") =>
                sched[j].status \in {"completed", "failed"}

\* C3 as amended: a one_time job that the due query of main returned is
\* completed or failed after the tick, unless the store refused the patch
\* that update_schedule issued for it: then the job is as it was
C3_OneTimeTerminalUnlessRefused ==
    TickOver =>
        \A j \in SchedIds :
            (DueAtStart(j) /\ StartRow(j).schedule_type = "one_time" /\ HandledInTick(j)) =>
                \/ sched[j].status \in {"completed", "failed"}
                \/ RefusedInTick(j) /\ sched[j] = StartRow(j)

\* main has returned and a one_time job it ran is completed, and another
\* run of main has left a one_time job active because its patch was refused
C3_Witness ==
    /\ TickOver
    /\ \E j \in SchedIds :
         /\ DueAtStart(j) /\ StartRow(j).schedule_type = "one_time" /\ HandledInTick(j)
         /\ sched[j].status = "completed"
         /\ obs[j].refused > 0

\* C4: once a job is completed or failed, no step changes its row, handles
\* it or patches it, and no due query returns it
C4_TerminalJobsUntouched ==
    [][\A j \in Jobs :
          JobRow(j).status \in {"completed", "failed"} =>
              /\ sched' = sched \/ j \notin SchedIds \/ sched'[j] = sched[j]
              /\ ai' = ai \/ j \notin AiIds \/ ai'[j] = ai[j]
              /\ obs'[j] = obs[j]
              /\ pc'[1] \in {"main_loop", "ai_loop"} =>
                   \A i \in DOMAIN due'[1] : due'[1][i] # j]_vars

\* a second run of main iterates its due list while a job whose next_run_at
\* has passed is completed or failed
C4_Witness ==
    /\ ticks = 2
    /\ pc[1] = "main_loop"
    /\ \E j \in SchedIds :
         /\ sched[j].status \in {"completed", "failed"}
         /\ sched[j].next_run_at <= now
         /\ obs[j].runs = 1

\* the active sessions of a user
ActiveSessions(u) ==
    {i \in DOMAIN sessions : sessions[i].user_id = u /\ sessions[i].status = "active"}

\* C6: at every moment a user has at most one active silent session
C6_AtMostOneActiveSession == \A u \in Users : Cardinality(ActiveSessions(u)) <= 1

\* the zone of a job is one the zone database knows
ValidZone(j) == TzValid(StartRow(j).timezone)

\* the item that the invocation handled last was a recurring job that was
\* executed and for which a next_run_at was handed to the store
Rescheduled ==
    /\ last[1].id \in Jobs
    /\ last[1].issued # <<>>
    /\ "next_run_at" \in DOMAIN last[1].issued[1]

LastExpr ==
    IF last[1].id \in SchedIds THEN last[1].before.schedule_value
    ELSE last[1].before.schedule_spec

\* C7: the next_run_at written after a cron job has run is the next match
\* of the expression on the wall clock of the job's zone, as a UTC instant
C7_NextRunInLocalTime ==
    (Rescheduled /\ TzValid(last[1].before.timezone)) =>
        last[1].issued[1].next_run_at
            = NextRunInZone(LastExpr, last[1].before.timezone, last[1].at)

\* the cron expression or the zone of a recurring job is invalid
InvalidRecurrence(j) ==
    IsCron(j) /\ (~ CronValid(CronExprOf(j)) \/ ~ ValidZone(j))

\* C8: a due cron job with an invalid expression or zone is failed after
\* the tick, the tick does not end with an error, and the other due jobs of
\* the tick are run; stated for the jobs the tick ran without a refused patch
C8_InvalidRecurrenceFails ==
    TickOver =>
        \A j \in Jobs :
            (RanInTick(j) /\ InvalidRecurrence(j)) =>
                /\ JobRow(j).status = "failed"
                /\ resp[1] # "500"
                /\ \A k \in Jobs : DueAtStart(k) => HandledInTick(k)

\* the item that the invocation handled last was a job of an action type
\* that its dispatcher does not know, of a user whose contact was found
\* and with a valid recurrence, and the store refused no patch of it
UnknownTypeHandled ==
    /\ last[1].id \in Jobs
    /\ last[1].phone
    /\ IF last[1].id \in SchedIds
       THEN last[1].before.action_type \notin RunnerActionTypes
       ELSE /\ last[1].before.action_type \notin ServiceActionTypes
            /\ last[1].before.schedule_spec # "none" =>
                 (CronValid(last[1].before.schedule_spec) /\ TzValid(last[1].before.timezone))
    /\ last[1].issued = <<>> \/ last[1].applied

\* C9: a due job of an unknown action type is failed, neither completed
\* nor rescheduled, and not counted as executed
C9_UnknownActionTypeFails ==
    UnknownTypeHandled =>
        /\ JobRow(last[1].id).status = "failed"
        /\ JobRow(last[1].id).next_run_at = last[1].before.next_run_at
        /\ ~ last[1].counted

\* the item that main handled last was a send_notification job of a user
\* without a contact
NotifyWithoutContact ==
    /\ last[1].id \in SchedIds
    /\ last[1].before.action_type = "send_notification"
    /\ ~ HasPhone(last[1].before.user_id)

NoSendByLast == Count(last[1].events, "send") = 0

\* C10 as stated: for a due send_notification job of a user without a
\* contact, process_schedule sends nothing, the job is failed, and no
\* exception reaches main
C10_NoContactFails ==
    NotifyWithoutContact =>
        /\ NoSendByLast
        /\ sched[last[1].id].status = "failed"
        /\ ~ last[1].raised

\* C10 as amended: process_schedule sends nothing, raises nothing and hands
\* the patch status = failed to update_schedule; the job is failed unless
\* the store refuses the patch, and then it is as it was
C10_NoContactIssuesFailed ==
    NotifyWithoutContact =>
        /\ NoSendByLast
        /\ ~ last[1].raised
        /\ last[1].issued
             = <<[status |-> "failed", error_message |-> "User phone not found"]>>
        /\ IF last[1].applied
           THEN sched[last[1].id].status = "failed"
           ELSE sched[last[1].id] = last[1].before

\* main has run a send_notification job of a user without a contact, and the
\* job is failed with nothing sent for it
C10_Witness ==
    /\ NotifyWithoutContact
    /\ sched[last[1].id].status = "failed"
    /\ sched[last[1].id].error_message = "User phone not found"
    /\ obs[last[1].id].sends = 0
    /\ obs[last[1].id].runs = 1

\* the item that main handled last was a one_time create_task job with a
\* payload, of a user without a contact, and the store accepted its patch
CreateTaskWithoutContact ==
    /\ last[1].id \in SchedIds
    /\ last[1].before.action_type = "create_task"
    /\ last[1].before.action_payload = "object"
    /\ last[1].before.schedule_type = "one_time"
    /\ ~ HasPhone(last[1].before.user_id)
    /\ last[1].applied

\* C11: for a due one_time create_task job of a user without a contact the
\* task is created, nothing is sent and the job is completed
C11_TaskCreatedWithoutContact ==
    CreateTaskWithoutContact =>
        /\ obs[last[1].id].tasks >= 1
        /\ NoSendByLast
        /\ sched[last[1].id].status = "completed"

\* the four sweeps of run_all_due_jobs have returned
AllSweepsReturned ==
    /\ {"rem_loop", "ai_loop", "silent_check"} \subseteq done[1]
    /\ done[1] \cap {"exp_query", "exp_loop"} # {}

\* C12: when the handling of a due reminder or job has raised, the tick
\* still handles every reminder and job that was due when it started, and
\* run_all_due_jobs still runs its four sweeps
C12_ItemFailureIsolated ==
    (TickOver /\ last[1].raised) =>
        /\ \A r \in DueRemindersAtStart : HandledInTick(r)
        /\ \A j \in Jobs : DueAtStart(j) => HandledInTick(j)
        /\ deployment = "service" => AllSweepsReturned

\* C13: at every moment the status of every job, in scheduled_actions and
\* in ai_actions, is one of active, completed, failed
C13_StatusInEnum == \A j \in Jobs : JobRow(j).status \in Statuses

\* C14: a session that is ended is never changed again, and no further
\* summary is sent or logged for it
C14_EndedSessionsImmutable ==
    [][\A i \in DOMAIN sessions :
          sessions[i].status = "ended" =>
              /\ sessions'[i] = sessions[i]
              /\ sessSends'[i] = sessSends[i]]_vars

\* the expiry sweep of the invocation has returned
ExpiryReturned == done[1] \cap {"exp_query", "exp_loop"} # {}

\* the sessions that were active with an elapsed window when the expiry
\* sweep fetched them
ExpiredAtSweep ==
    {i \in DOMAIN snap[1].exp.sessions : IsExpired(snap[1].exp.sessions[i], snap[1].at)}

SummariesInSweep(i) == sessSends[i].summaries - snap[1].exp.sends[i].summaries

EndedInSweep(i) == sessSends[i].ends > snap[1].exp.sends[i].ends

FoundInSweep(i) == sessSends[i].found > snap[1].exp.sends[i].found

\* C15 as stated: after a run of the expiry sweep every session that was
\* active with start + duration <= now is ended with reason expired, and
\* one summary has been sent for it when its user has a contact
C15_ExpiredSessionsEnded ==
    ExpiryReturned =>
        \A i \in ExpiredAtSweep :
            /\ sessions[i].status = "ended"
            /\ sessions[i].end_reason = "expired"
            /\ HasPhone(sessions[i].user_id) => SummariesInSweep(i) = 1

\* C15 as amended: after a run of the sweep, every such session for which
\* end_silent_session gave the ended session is ended with reason expired,
\* with one summary sent when the phone of its user was found and none
\* otherwise; for the other sessions (the query or the end call failed)
\* nothing is sent, and one that is still active is as it was
C15_EndedWhenEndCallSucceeds ==
    ExpiryReturned =>
        \A i \in ExpiredAtSweep :
            IF EndedInSweep(i)
            THEN /\ sessions[i].status = "ended"
                 /\ sessions[i].end_reason = "expired"
                 /\ SummariesInSweep(i) = (IF FoundInSweep(i) THEN 1 ELSE 0)
                 /\ ~ HasPhone(sessions[i].user_id) => ~ FoundInSweep(i)
            ELSE /\ SummariesInSweep(i) = 0
                 /\ sessions[i].status = "active" => sessions[i] = snap[1].exp.sessions[i]

\* the sweep has returned after it ended an expired session of a user with a
\* contact and sent the one summary
C15_Witness ==
    /\ ExpiryReturned
    /\ \E i \in ExpiredAtSweep :
         /\ EndedInSweep(i)
         /\ sessions[i].end_reason = "expired"
         /\ HasPhone(sessions[i].user_id)
         /\ SummariesInSweep(i) = 1

\* the step is the create_silent_session call of the auto-activation sweep
SweepCreatesSession ==
    /\ pc[1] = "silent_create"
    /\ pc'[1] # "silent_create"
    /\ Len(sessions') = Len(sessions) + 1

\* the created session is of a user with auto-silent enabled whose local
\* hour is the start hour, and it is an auto session for the whole window
CreatedForWindow ==
    LET new == sessions'[Len(sessions')]
        u == new.user_id
    IN /\ u \in DOMAIN prefs
       /\ prefs[u].auto_silent_enabled
       /\ LocalHour(now, prefs[u].timezone) = prefs[u].auto_silent_start_hour
       /\ new.trigger_type = "auto"
       /\ new.duration_minutes
            = WindowDurationHours(prefs[u].auto_silent_start_hour,
                                  prefs[u].auto_silent_end_hour) * MinutesPerHour

\* C16: the auto-activation sweep creates a session only for a user with
\* auto-silent enabled, at the start hour on the user's clock, who has no
\* active session; the session is an auto session for the window
C16_AutoCreateOnlyWhenDue ==
    [][SweepCreatesSession =>
          /\ CreatedForWindow
          /\ GetActiveSilentSession(sessions, sessions'[Len(sessions')].user_id) = 0]_vars

\* the same without the requirement that the user has no active session
C16_AutoCreateForWindow == [][SweepCreatesSession => CreatedForWindow]_vars

\* the step is one of the invocation, not of the clock or of a user
InvocationStep == ticks' # ticks \/ pc' # pc \/ due' # due

\* C17: a request that is answered 401 reads nothing, writes nothing, sends
\* nothing and logs nothing: the step that answers it leaves the invocation
\* idle, with no query started and the tables and the observed effects as
\* they were
C17_UnauthorizedNoEffect ==
    [][(InvocationStep /\ resp'[1] = "401") =>
          /\ pc'[1] = "idle"
          /\ due'[1] = <<>>
          /\ UNCHANGED <<storeVars, obsVars, cnt>>]_vars

\* a request has been answered 401 while a reminder was due and unsent
C17_Witness ==
    /\ resp[1] = "401"
    /\ pc[1] = "idle"
    /\ \E r \in ReminderIds :
         IsDueReminder(tasks[r], now) /\ HasPhone(tasks[r].user_id) /\ obs[r].runs = 0

\* invocation p handles the item at the head of its list of due reminders,
\* or of due schedules, in this step
HandlesItem(p) == pc[p] \in {"rem_loop", "main_loop"} /\ due'[p] # due[p]

\* the item is a reminder, or a send_notification job with a payload
SendsWhenContactFound(p) ==
    \/ pc[p] = "rem_loop"
    \/ /\ sched[Head(due[p])].action_type = "send_notification"
       /\ sched[Head(due[p])].action_payload = "object"

\* C18: nothing claims a selected row before it is executed: an invocation
\* that handles a reminder or a notification job it selected attempts the
\* send whenever the contact is found, also when another invocation has
\* flagged or patched the row since the selection
C18_NoClaimBeforeSend ==
    [][\A p \in Procs :
          (HandlesItem(p) /\ SendsWhenContactFound(p) /\ last'[p].phone) =>
              obs'[Head(due[p])].sends = obs[Head(due[p])].sends + 1]_vars

\* two overlapping invocations have both selected the same due reminder
\* and both have attempted the send for it: the second handled it when the
\* first had already set reminder_sent
C18_Witness ==
    \E r \in ReminderIds :
        /\ obs[r].sends = 2
        /\ last[1].id = r /\ last[2].id = r
        /\ \E p \in Procs : ~ last[p].before.reminder_sent
        /\ \E p \in Procs : last[p].before.reminder_sent

\* the position of the first occurrence of event e in the events of an item,
\* 0 when the item has no such event
FirstAt(events, e) ==
    IF \E i \in DOMAIN events : events[i] = e
    THEN CHOOSE i \in DOMAIN events :
             events[i] = e /\ \A j \in DOMAIN events : events[j] = e => i <= j
    ELSE 0

\* the item the service handled last attempted a send and wrote a log entry
SentAndLogged ==
    /\ deployment = "service"
    /\ last[1].id \in ReminderIds \cup AiIds
    /\ FirstAt(last[1].events, "send") > 0
    /\ FirstAt(last[1].events, "log") > 0

\* C19: for every reminder and every job the service handles, the send
\* attempt precedes the write of the log entry
C19_SendPrecedesLog ==
    SentAndLogged => FirstAt(last[1].events, "send") < FirstAt(last[1].events, "log")

\* update_job_after_run was called for the job the service handled last:
\* every path of the loop body calls it, except the one that raises on a
\* missing payload
UpdateJobCalled ==
    /\ deployment = "service"
    /\ last[1].id \in AiIds
    /\ ~ /\ last[1].phone
         /\ last[1].before.action_type = "create_recurring_task"
         /\ last[1].before.action_payload = "null"

\* C20: for every job handle_due_ai_actions processes, whatever the
\* outcome, a log entry is appended (or its write attempted) before
\* update_job_after_run is called
C20_LoggedBeforeUpdate ==
    UpdateJobCalled =>
        \E i \in DOMAIN last[1].events : last[1].events[i] \in {"log", "logfail"}

----------------------------------------------------------------------------
(* Failed writes and failed reads *)

\* the elements of a list
Range(seq) == {seq[i] : i \in DOMAIN seq}

\* the store has refused every patch issued for the job so far
NeverPatched(j) == obs[j].refused > 0 /\ obs[j].patches = 0

\* main handles the schedule at the head of its list in this step
MainHandles == pc[1] = "main_loop" /\ due'[1] # due[1]

\* main starts in this step and its due query returns rows
MainSelects == deployment = "runner" /\ ticks' = ticks + 1 /\ due'[1] # <<>>

\* C21: when the store write that process_schedule issues for a schedule
\* fails, the row is left as it was and is still due; the next run of main
\* whose query returns rows selects it again, and it is handled again
C21_RefusedWriteRetried ==
    [][/\ (MainHandles /\ last'[1].issued # <<>> /\ ~ last'[1].applied) =>
            /\ sched'[Head(due[1])] = sched[Head(due[1])]
            /\ IsDueSchedule(sched'[Head(due[1])], now')
       /\ MainSelects =>
            \A j \in SchedIds : NeverPatched(j) => j \in Range(due'[1])
       /\ \A j \in SchedIds :
            (NeverPatched(j) /\ j \in Range(due[1])) => IsDueSchedule(sched[j], now)]_vars

\* the write for a notification failed in one run of main, and the next run
\* selected the schedule again and sent the notification a second time
C21_Witness ==
    \E j \in SchedIds :
        /\ obs[j].refused >= 1
        /\ obs[j].runs = 2
        /\ obs[j].sends = 2
        /\ last[1].id = j
        /\ last[1].before.action_type = "send_notification"
        /\ last[1].before.schedule_type = "one_time"

\* the invocation of the service has ended without handling any reminder
\* or job: no write was issued, so only a read can have failed in it
EndedWithoutItem ==
    /\ deployment = "service"
    /\ TickOver
    /\ last[1].id = "none"

\* C22: a store read failure in the due query of a sweep degrades to an
\* empty result: the sweep reports zero items, the remaining sweeps run and
\* the tick answers with success
C22_ReadFailureDegrades ==
    EndedWithoutItem =>
        /\ resp[1] = "200"
        /\ {"rem_loop", "ai_loop", "silent_check"} \subseteq done[1]

----------------------------------------------------------------------------
(* Handler failures in process_schedule *)

\* the patch that process_schedule issued for the schedule handled last
\* sets the status to failed
IssuedFailed ==
    /\ last[1].issued # <<>>
    /\ "status" \in DOMAIN last[1].issued[1]
    /\ last[1].issued[1].status = "failed"

\* main handled a create_task schedule of a user with a phone, and the
\* insert of create_task_from_schedule gave no task
TaskInsertFailed ==
    /\ deployment = "runner"
    /\ last[1].id \in SchedIds
    /\ last[1].phone
    /\ last[1].before.action_type = "create_task"
    /\ Count(last[1].events, "task") = 0

\* C23: when the insert of a create_task schedule fails, the execution
\* counts as failed: the patch sets the status to failed, and the schedule
\* is neither completed nor rescheduled
C23_FailedInsertFailsJob ==
    TaskInsertFailed => IssuedFailed

\* main handled an execute_prompt schedule of a user with a phone whose
\* payload holds no prompt
PromptMissing ==
    /\ deployment = "runner"
    /\ last[1].id \in SchedIds
    /\ last[1].phone
    /\ last[1].before.action_type = "execute_prompt"
    /\ last[1].before.action_payload = "null"

\* C24: a due execute_prompt schedule without a prompt is a handler
\* failure: nothing is sent and the status becomes failed
C24_MissingPromptFailsJob ==
    PromptMissing => (Count(last[1].events, "send") = 0 /\ IssuedFailed)

----------------------------------------------------------------------------
(* The count of handle_due_reminders *)

\* the reminders that were due when the invocation started and whose user
\* has no contact
DueWithoutContact ==
    {r \in DueRemindersAtStart : ~ HasPhone(snap[1].tasks[r].user_id)}

\* nothing was sent, logged or patched for the reminder in this invocation
\* and its row is as it was
Skipped(r) ==
    /\ obs[r].sends = snap[1].obs[r].sends
    /\ obs[r].logs = snap[1].obs[r].logs
    /\ obs[r].patches = snap[1].obs[r].patches
    /\ obs[r].refused = snap[1].obs[r].refused
    /\ tasks[r] = snap[1].tasks[r]

\* C25: handle_due_reminders returns the number of due reminders for which
\* a send was attempted, whatever the sends returned; a due reminder whose
\* user has no contact is skipped without send, log entry or flag change,
\* and every due reminder, also one after a skipped one, has been handled
C25_CountsSendAttempts ==
    RemindersReturned =>
        /\ cnt[1].reminders_sent = Cardinality({r \in ReminderIds : SentInTick(r)})
        /\ \A r \in DueRemindersAtStart : HandledInTick(r)
        /\ \A r \in DueWithoutContact : Skipped(r)

\* the sweep has returned 1: the first due reminder, whose user has no
\* contact, was skipped and the second was sent
C25_Witness ==
    /\ RemindersReturned
    /\ cnt[1].reminders_sent = 1
    /\ "r1" \in DueWithoutContact
    /\ "r2" \in DueRemindersAtStart /\ SentInTick("r2")

----------------------------------------------------------------------------
(* Failures of the log write *)

\* the log write failed for the reminder or job the service handled last
LogFailed ==
    /\ deployment = "service"
    /\ last[1].id \in ReminderIds \cup AiIds
    /\ Count(last[1].events, "logfail") > 0

\* the auto sessions created since the invocation started
AutoCreatedInTick ==
    {i \in DOMAIN sessions :
        i > Len(snap[1].sessions) /\ sessions[i].trigger_type = "auto"}

\* C26: a failure of the log write never aborts the action being logged.
\* For a reminder the send and the flag update still happen; for a job the
\* send happens and update_job_after_run issues the patch of a successful
\* run; an auto session stays created and counted and an expired session
\* gets its summary whenever the contact is found, logged or not
C26_LogFailureDoesNotAbort ==
    /\ LogFailed =>
         /\ Count(last[1].events, "send") = 1
         /\ last[1].id \in ReminderIds => last[1].issued = <<[reminder_sent |-> TRUE]>>
         /\ last[1].id \in AiIds =>
              last[1].issued =
                  UpdateJobAfterRun(last[1].before, "success", last[1].at).patches
    /\ deployment = "service" =>
         /\ cnt[1].silent_sessions_managed = Cardinality(AutoCreatedInTick)
         /\ \A i \in DOMAIN sessSends :
              /\ sessSends[i].summaries = sessSends[i].found
              /\ sessSends[i].logs <= sessSends[i].notices + sessSends[i].summaries

\* the log write failed for a job, and the send was attempted and the job
\* completed all the same
C26_Witness ==
    /\ LogFailed
    /\ last[1].id \in AiIds
    /\ Count(last[1].events, "send") = 1
    /\ last[1].applied
    /\ ai[last[1].id].status = "completed"

\* the log write failed for a reminder that was sent and flagged
C26_ReminderCase ==
    /\ LogFailed
    /\ last[1].id \in ReminderIds
    /\ tasks[last[1].id].reminder_sent

\* the log write failed for the notice of an auto session and for the
\* summary of an expired one
C26_SessionCase ==
    \E i \in DOMAIN sessSends :
        /\ sessSends[i].notices = 1
        /\ sessSends[i].summaries = 1
        /\ sessSends[i].logs = 0
        /\ cnt[1].expired_sessions_ended = 1

----------------------------------------------------------------------------
(* The duration of the auto-silent window *)

\* the sessions the auto-activation sweep has created
AutoSessions == {i \in DOMAIN sessions : sessions[i].trigger_type = "auto"}

\* the start and the end hour of the user of a session
StartHourOf(i) == prefs[sessions[i].user_id].auto_silent_start_hour
EndHourOf(i) == prefs[sessions[i].user_id].auto_silent_end_hour

\* the duration in hours of a session
DurationHours(i) == sessions[i].duration_minutes \div MinutesPerHour

\* C27: for all start and end hours in 0..23 the duration of the session
\* the sweep creates is end - start hours when end > start and
\* (24 - start) + end hours otherwise; (22, 2) and (7, 11) give 4 hours
C27_WindowDuration ==
    \A i \in AutoSessions :
        /\ sessions[i].duration_minutes = DurationHours(i) * MinutesPerHour
        /\ EndHourOf(i) > StartHourOf(i) =>
             DurationHours(i) = EndHourOf(i) - StartHourOf(i)
        /\ EndHourOf(i) <= StartHourOf(i) =>
             DurationHours(i) = (24 - StartHourOf(i)) + EndHourOf(i)
        /\ (StartHourOf(i) = 22 /\ EndHourOf(i) = 2) => DurationHours(i) = 4
        /\ (StartHourOf(i) = 7 /\ EndHourOf(i) = 11) => DurationHours(i) = 4

\* the sweep has created the session of a window from 22 to 2 that lasts
\* 240 minutes
C27_Witness ==
    \E i \in AutoSessions :
        /\ StartHourOf(i) = 22
        /\ EndHourOf(i) = 2
        /\ sessions[i].duration_minutes = 240

\* the sweep has created the session of a window from 7 to 11
C27_MorningCase ==
    \E i \in AutoSessions :
        StartHourOf(i) = 7 /\ EndHourOf(i) = 11 /\ sessions[i].duration_minutes = 240

\* C28: the window duration in hours is (end - start) mod 24: it lies in
\* 0..23 and is 0 when the two hours are equal
C28_DurationModulo24 ==
    \A i \in AutoSessions :
        /\ DurationHours(i) = (EndHourOf(i) - StartHourOf(i) + 24) % 24
        /\ DurationHours(i) \in 0 .. 23

----------------------------------------------------------------------------
(* Executed schedules are patched *)

\* main executed the schedule it handled last: the contact was found and
\* the action type is one that process_schedule knows
Executed ==
    /\ deployment = "runner"
    /\ last[1].id \in SchedIds
    /\ last[1].phone
    /\ last[1].before.action_type \in RunnerActionTypes

\* C29: every schedule that process_schedule executes is patched before the
\* call is over, whatever its schedule_type: a patch that completes it,
\* fails it or gives it a new next_run_at is issued, so that no schedule is
\* executed and then left active and due with its row unchanged
C29_ExecutedIsPatched ==
    Executed =>
        /\ last[1].issued # <<>>
        /\ last[1].applied => sched[last[1].id] # last[1].before

----------------------------------------------------------------------------
(* What a tick leaves alone *)

\* when the invocation started the job was not active or its next_run_at
\* lay ahead
JobNotDueAtStart(j) ==
    StartRow(j).status # "active" \/ StartRow(j).next_run_at > snap[1].at

\* when the invocation started the reminder was sent already or its
\* reminder_at lay ahead
ReminderNotDueAtStart(r) ==
    snap[1].tasks[r].reminder_sent \/ snap[1].tasks[r].reminder_at > snap[1].at

\* C30: a tick changes only rows it selected as due: a job that is not
\* active or whose next_run_at lies ahead, and a reminder that is sent or
\* whose reminder_at lies ahead, has all its fields unchanged during and
\* after the tick, and nothing is sent, logged or patched for it
C30_OnlyDueRowsChange ==
    /\ \A j \in Jobs :
         JobNotDueAtStart(j) => (JobRow(j) = StartRow(j) /\ obs[j] = snap[1].obs[j])
    /\ \A r \in ReminderIds :
         ReminderNotDueAtStart(r) =>
             (tasks[r] = snap[1].tasks[r] /\ obs[r] = snap[1].obs[r])

\* a tick of the service is over in which a due reminder was sent and
\* flagged and a due job was run, while a reminder whose reminder_at lies
\* ahead and a completed job are as they were
C30_Witness ==
    /\ deployment = "service"
    /\ TickOver
    /\ \E r \in ReminderIds : SentInTick(r) /\ tasks[r].reminder_sent
    /\ \E r \in ReminderIds :
         ~ snap[1].tasks[r].reminder_sent /\ snap[1].tasks[r].reminder_at > snap[1].at
    /\ \E j \in AiIds : HandledInTick(j)
    /\ \E j \in AiIds : StartRow(j).status = "completed"

----------------------------------------------------------------------------
(* Auto sessions per start hour *)

\* the auto sessions of a user that were created in the hour t
AutoSessionsAt(u, t) ==
    {i \in AutoSessions : sessions[i].user_id = u /\ sessions[i].start = t}

\* C31: within one occurrence of a user's start hour the auto-activation
\* sweep creates at most one auto session for the user, however many ticks
\* run in that hour, also when the session it created is ended by a manual
\* exit before the hour is over
C31_OneAutoSessionPerHour ==
    \A u \in Users : \A i \in AutoSessions :
        Cardinality(AutoSessionsAt(u, sessions[i].start)) <= 1

====
